---- MODULE Spec2Model ----
(***************************************************************************)
(* State-machine model of the Modbus client of protolibs/ics_clients.py:   *)
(* ModbusClient._requestPoints, readPoints, writePoints and the test       *)
(* method testSingleWrite, run against a master whose execute() reads and  *)
(* writes the register blocks of one slave device (specification Spec);    *)
(* of the thread of portlogger.PortLogger between the devices on its       *)
(* pseudoterminals (specification SpecLogger); and of ifaces.udp's         *)
(* sendMessage (specification SpecUDP).                                    *)
(***************************************************************************)
EXTENDS Integers, Sequences, FiniteSets, TLC

VARIABLES
    slave_points,   \* self.slave_points: the point list given to __init__
    device,         \* the slave's register blocks: <<block type, address>> -> value
    pc,             \* "idle": no call in progress; "returned": a call has returned
    request,        \* the call that returned last: operation and arguments
    issued,         \* the master.execute() calls that call put on the wire, in order
    result          \* how the call ended: status, kind of return value, values

\* portlogger.PortLogger
VARIABLES
    masters,        \* self.masters: the master ends of the pseudoterminals
    done,           \* self.done
    lpc,            \* where run() stands: "while" (before select), "for" (before
                    \* os.read), "write" (before the os.write calls), "log"
                    \* (before log_packet), "exited", "crashed"
    data_in,        \* the chunk the for loop is handling
    closed,         \* stop() has closed self.log
    ports_to_read,  \* the ports select() returned that the for loop has yet to read
    pending,        \* per port, the bytes its device wrote that os.read has yet to take
    written,        \* per port, the chunks os.write put on it, each with the
                    \* number of the os.read it came from
    logfile,        \* the packet entries of self.log
    reads,          \* the chunks os.read returned so far, with their ports
    nwrites         \* the number of writes the devices made

\* ifaces.udp
VARIABLES
    self_recipients,    \* self.recipients
    ucall,              \* the last sendMessage call: message and recipients argument
    sock_sendto,        \* the self.sock.sendto calls that call completed, in order
    ustatus             \* how that call ended; "none" when no call has been made
                        \* since the caller took the last one's outcome

clientVars == <<slave_points, device, pc, request, issued, result>>
loggerVars == <<masters, done, lpc, data_in, closed, ports_to_read, pending,
                written, logfile, reads, nwrites>>
udpVars == <<self_recipients, ucall, sock_sendto, ustatus>>

vars == <<clientVars, loggerVars, udpVars>>

----------------------------------------------------------------------------
(* Bounds of the model *)

MaxNames == 3       \* longest name list of a readPoints call / largest write mapping
MaxPairs == 1       \* longest list of (name, value) pairs given to writePoints
MaxValue == 1       \* register values range over 0..MaxValue
MaxAddr == 26       \* the device's blocks hold addresses 0..MaxAddr
MaxFail == 2        \* the transport may fail the 1st..MaxFail-th transaction of a call
MaxPorts == 3       \* a PortLogger is made with 2..MaxPorts ports
MaxWrites == 2      \* the devices on the ports write at most MaxWrites strings
MaxRecipients == 2  \* longest list of recipients of a udp interface or call

Values == 0..MaxValue
Addrs == 0..MaxAddr

----------------------------------------------------------------------------
(* modbus_tk.defines as used by the client *)

COILS == "COILS"
DISCRETE_INPUTS == "DISCRETE_INPUTS"
HOLDING_REGISTERS == "HOLDING_REGISTERS"
ANALOG_INPUTS == "ANALOG_INPUTS"

None == "None"

\* FUNCTION_MAP: block type -> (read, write single, write multiple)
FUNCTION_MAP ==
    COILS :> <<"READ_COILS", "WRITE_SINGLE_COIL", "WRITE_MULTIPLE_COILS">> @@
    DISCRETE_INPUTS :> <<"READ_DISCRETE_INPUTS", None, None>> @@
    HOLDING_REGISTERS :> <<"READ_HOLDING_REGISTERS", "WRITE_SINGLE_REGISTER",
                           "WRITE_MULTIPLE_REGISTERS">> @@
    ANALOG_INPUTS :> <<"READ_INPUT_REGISTERS", None, None>>

\* pointsByType.keys(): the dict literal {COILS, DISCRETE_INPUTS,
\* HOLDING_REGISTERS, ANALOG_INPUTS} has the integer keys 1, 2, 3, 4, which a
\* Python 2 dict iterates in this order.
pointsByTypeKeys == <<COILS, DISCRETE_INPUTS, HOLDING_REGISTERS, ANALOG_INPUTS>>

BlockTypes == {pointsByTypeKeys[i] : i \in 1..Len(pointsByTypeKeys)}

MAXDISTANCE == 5

\* self.to_config['id']
slaveAddress == 1

----------------------------------------------------------------------------
(* Point lists a client is constructed with (slave_config['points']).  Names *)
(* are unique within a list; the lists are not sorted by address.            *)

Point(n, t, a) == [name |-> n, blocktype |-> t, addr |-> a]

TankPoints ==
    << Point("temperature", ANALOG_INPUTS, 25),
       Point("pressure", ANALOG_INPUTS, 10),
       Point("pump", COILS, 1),
       Point("flow", ANALOG_INPUTS, 14),
       Point("closed", DISCRETE_INPUTS, 10),
       Point("inflow", ANALOG_INPUTS, 19),
       Point("level", ANALOG_INPUTS, 12) >>

ValvePoints ==
    << Point("alarmlevel", HOLDING_REGISTERS, 13),
       Point("setpoint", HOLDING_REGISTERS, 10),
       Point("sp", HOLDING_REGISTERS, 11) >>

\* two names for one coil
MotorPoints ==
    << Point("motor", COILS, 1),
       Point("starter", COILS, 1) >>

PointLists == {TankPoints, ValvePoints, MotorPoints}

Range(s) == {s[i] : i \in 1..Len(s)}

\* some enumeration of a finite set
RECURSIVE SetToSeq(_)
SetToSeq(S) ==
    IF S = {} THEN <<>>
    ELSE LET x == CHOOSE y \in S : TRUE IN <<x>> \o SetToSeq(S \ {x})

NamesOf(points) == {points[i].name : i \in 1..Len(points)}

\* a name no point list holds
NoSuchName == "nosuch"

\* the names a caller may pass
CallNames(points) == NamesOf(points) \cup {NoSuchName}

----------------------------------------------------------------------------
(* ModbusClient._requestPoints: preparing the points *)

\* if not hasattr(points, '__iter__'): points = [points]
\* A call's argument is a list of names (iter, names) or one bare name
\* (name): a str has no __iter__ in Python 2 and becomes a one-element list.
MakeIterable(arg) == IF arg.iter THEN arg.names ELSE <<arg.name>>

\* pointsByType without the partition by block type: every requested point is
\* handed to every block type's loop
pointsByTypeUnpartitioned(points, pointType) ==
    LET wanted(pt) == pt.name \in Range(points)
    IN SelectSeq(slave_points, wanted)

\* pointsByType that keeps only the first requested point of a block type
pointsByTypeFirstOnly(points, pointType) ==
    LET wanted(pt) == pt.name \in Range(points) /\ pt.blocktype = pointType
        all == SelectSeq(slave_points, wanted)
    IN IF all = <<>> THEN <<>> ELSE <<all[1]>>

\* for ptdesc in [pt for pt in self.slave_points if pt['name'] in points]:
\*     pointsByType[ptdesc blocktype].append(ptdesc)
pointsByType(points, pointType) ==
    LET wanted(pt) == pt.name \in Range(points) /\ pt.blocktype = pointType
    IN SelectSeq(slave_points, wanted)

\* getaddr = lambda p: int(p['metadata']['modbus']['addr']); addresses are
\* kept as the integers int() yields.
getaddr(p) == p.addr

\* closeenough that takes the distance from p up to q and leaves out the
\* threshold itself
closeenoughExclusive(p, q, rw) ==
    getaddr(q) - getaddr(p) < (IF rw = "r" THEN MAXDISTANCE ELSE 1)

\* closeenough = lambda p,q: getaddr(p) - getaddr(q) <= (MAXDISTANCE if rw=='r' else 1)
closeenough(p, q, rw) ==
    getaddr(p) - getaddr(q) <= (IF rw = "r" THEN MAXDISTANCE ELSE 1)

\* list.sort(key = getaddr): stable, ascending
RECURSIVE InsertByAddr(_, _)
InsertByAddr(sorted, p) ==
    IF sorted = <<>> THEN <<p>>
    ELSE IF getaddr(Head(sorted)) <= getaddr(p)
         THEN <<Head(sorted)>> \o InsertByAddr(Tail(sorted), p)
         ELSE <<p>> \o sorted

RECURSIVE SortByAddr(_)
SortByAddr(pts) ==
    IF pts = <<>> THEN <<>>
    ELSE InsertByAddr(SortByAddr(SubSeq(pts, 1, Len(pts) - 1)), pts[Len(pts)])

\* the loop with reqOffset taken as the place of the point in its group,
\* len(requestPoints), instead of getaddr(pt) - reqBaseAddr
RECURSIVE GroupLoopByPlace(_, _, _, _, _)
GroupLoopByPlace(pts, index, requestPoints, reqBaseAddr, rw) ==
    IF index > Len(pts) THEN <<>>
    ELSE LET pt == pts[index]
             first == Len(requestPoints) = 0
             base == IF first THEN getaddr(pt) ELSE reqBaseAddr
             grown == Append(requestPoints,
                             [name |-> pt.name, offset |-> Len(requestPoints),
                              pt |-> pt])
             endOfGroup == IF index + 1 > Len(pts) THEN TRUE
                           ELSE ~closeenough(pt, pts[index + 1], rw)
         IN IF endOfGroup
            THEN <<grown>> \o GroupLoopByPlace(pts, index + 1, <<>>, base, rw)
            ELSE GroupLoopByPlace(pts, index + 1, grown, base, rw)

\* for index, pt in enumerate(pointsByType[pointType]): the groups the loop
\* closes, in order; a group is the list requestPoints of (name, reqOffset, pt)
\* at the moment endOfGroup is true.
RECURSIVE GroupLoop(_, _, _, _, _)
GroupLoop(pts, index, requestPoints, reqBaseAddr, rw) ==
    IF index > Len(pts) THEN <<>>
    ELSE LET pt == pts[index]
             first == Len(requestPoints) = 0
             base == IF first THEN getaddr(pt) ELSE reqBaseAddr
             reqOffset == IF first THEN 0 ELSE getaddr(pt) - reqBaseAddr
             grown == Append(requestPoints,
                             [name |-> pt.name, offset |-> reqOffset, pt |-> pt])
             endOfGroup == IF index + 1 > Len(pts) THEN TRUE   \* IndexError
                           ELSE ~closeenough(pt, pts[index + 1], rw)
         IN IF endOfGroup
            THEN <<grown>> \o GroupLoop(pts, index + 1, <<>>, base, rw)
            ELSE GroupLoop(pts, index + 1, grown, base, rw)

\* commandType that never selects the write-multiple code
commandTypeSingle(requestPoints, rw) ==
    IF rw = "r" THEN 0 ELSE 1

\* commandType that does not look at rw
commandTypeOfWrite(requestPoints, rw) ==
    IF Len(requestPoints) > 1 THEN 2 ELSE 1

\* commandType = 0 if rw=='r' else 2 if len(requestPoints)>1 else 1
commandType(requestPoints, rw) ==
    IF rw = "r" THEN 0 ELSE IF Len(requestPoints) > 1 THEN 2 ELSE 1

\* the function code taken from the row of the coils whatever the block type
functionCodeOfCoils(pointType, requestPoints, rw) ==
    FUNCTION_MAP[COILS][commandType(requestPoints, rw) + 1]

\* the function code of a request: FUNCTION_MAP[pointType][commandType]
functionCode(pointType, requestPoints, rw) ==
    FUNCTION_MAP[pointType][commandType(requestPoints, rw) + 1]

\* output_value = [values[p[0]] for p in requestPoints] when the group has
\* more than one member, else values[requestPoints[0][0]], a scalar
output_value(requestPoints, values) ==
    IF Len(requestPoints) > 1
    THEN [ scalar |-> FALSE,
           items |-> [i \in 1..Len(requestPoints) |-> values[requestPoints[i].name]] ]
    ELSE [ scalar |-> TRUE, items |-> <<values[requestPoints[1].name]>> ]

\* the call of execute() with a quantity one larger than the span of the
\* group, the last offset + 2
TransactionLongQuantity(pointType, requestPoints, rw, values) ==
    [ slave |-> slaveAddress,
      fcode |-> functionCode(pointType, requestPoints, rw),
      start |-> getaddr(requestPoints[1].pt),
      rw |-> rw,
      quantity |-> IF rw = "r"
                   THEN requestPoints[Len(requestPoints)].offset + 2 ELSE 0,
      output |-> IF rw = "r" THEN [scalar |-> FALSE, items |-> <<>>]
                 ELSE output_value(requestPoints, values),
      blocktype |-> pointType,
      members |-> requestPoints,
      failed |-> FALSE ]

\* if endOfGroup: the call of self.master.execute built from the group.
\* members and blocktype record the group the call was built from, failed
\* whether execute() raised on it.
Transaction(pointType, requestPoints, rw, values) ==
    [ slave |-> slaveAddress,
      fcode |-> functionCode(pointType, requestPoints, rw),
      start |-> getaddr(requestPoints[1].pt),
      rw |-> rw,
      quantity |-> IF rw = "r"
                   THEN requestPoints[Len(requestPoints)].offset + 1 ELSE 0,
      output |-> IF rw = "r" THEN [scalar |-> FALSE, items |-> <<>>]
                 ELSE output_value(requestPoints, values),
      blocktype |-> pointType,
      members |-> requestPoints,
      failed |-> FALSE ]

\* the requests of one block type, in the order the loop sends them
RequestsOfType(points, pointType, rw, values) ==
    LET groups == GroupLoop(SortByAddr(pointsByType(points, pointType)),
                            1, <<>>, 0, rw)
    IN [i \in 1..Len(groups) |-> Transaction(pointType, groups[i], rw, values)]

\* for pointType in pointsByType.keys(): all requests of the call, in order
RECURSIVE RequestsFrom(_, _, _, _)
RequestsFrom(k, points, rw, values) ==
    IF k > Len(pointsByTypeKeys) THEN <<>>
    ELSE RequestsOfType(points, pointsByTypeKeys[k], rw, values)
         \o RequestsFrom(k + 1, points, rw, values)

----------------------------------------------------------------------------
(* The master: execute() against the slave's blocks *)

\* the block a function code addresses
BlockOfCode(fcode) ==
    CASE fcode \in {"READ_COILS", "WRITE_SINGLE_COIL", "WRITE_MULTIPLE_COILS"}
            -> COILS
      [] fcode = "READ_DISCRETE_INPUTS" -> DISCRETE_INPUTS
      [] fcode \in {"READ_HOLDING_REGISTERS", "WRITE_SINGLE_REGISTER",
                    "WRITE_MULTIPLE_REGISTERS"} -> HOLDING_REGISTERS
      [] fcode = "READ_INPUT_REGISTERS" -> ANALOG_INPUTS

\* master.execute(slave, READ_x, start, quantity): the values at
\* start, start+1, ..., start+quantity-1
executeRead(dev, tx) ==
    [i \in 1..tx.quantity |-> dev[<<BlockOfCode(tx.fcode), tx.start + (i - 1)>>]]

\* master.execute(slave, WRITE_x, start, output_value=...): the k-th value
\* (from 0) is stored at start+k; a single write stores its one value at start
executeWrite(dev, tx) ==
    LET n == Len(tx.output.items)
        hit(k) == k[1] = BlockOfCode(tx.fcode) /\ k[2] \in tx.start..(tx.start + n - 1)
    IN [k \in DOMAIN dev |->
            IF hit(k) THEN tx.output.items[k[2] - tx.start + 1] ELSE dev[k]]

----------------------------------------------------------------------------
(* ModbusClient._requestPoints: sending the requests, assembling the result *)

\* replies.update that gives every member of the group the first value of
\* the reply, ignoring the offsets
updateRepliesFirstValue(replies, requestPoints, reply, i) ==
    [n \in DOMAIN replies \cup {requestPoints[k].name : k \in 1..Len(requestPoints)} |->
        IF \E k \in 1..Len(requestPoints) : requestPoints[k].name = n
        THEN reply[1]
        ELSE replies[n]]

\* replies.update((t[0], reply[t[1]]) for t in requestPoints)
RECURSIVE updateReplies(_, _, _, _)
updateReplies(replies, requestPoints, reply, i) ==
    IF i > Len(requestPoints) THEN replies
    ELSE LET t == requestPoints[i]
         IN updateReplies((t.name :> reply[t.offset + 1]) @@ replies,
                          requestPoints, reply, i + 1)

\* The loop with the call of execute() wrapped in a handler that drops the
\* exception of the transport and goes on to the next group
RECURSIVE SendRequestsBestEffort(_, _, _, _, _, _)
SendRequestsBestEffort(txs, i, dev, replies, sent, failAt) ==
    IF i > Len(txs)
    THEN [status |-> "ok", device |-> dev, replies |-> replies, issued |-> sent]
    ELSE LET tx == txs[i] IN
         IF tx.fcode = None
         THEN [status |-> "ExecuteError", device |-> dev,
               replies |-> replies, issued |-> sent]
         ELSE IF failAt = Len(sent) + 1
         THEN SendRequestsBestEffort(txs, i + 1, dev, replies,
                                     Append(sent, [tx EXCEPT !.failed = TRUE]), failAt)
         ELSE IF tx.rw = "r"
         THEN SendRequestsBestEffort(txs, i + 1, dev,
                           updateReplies(replies, tx.members, executeRead(dev, tx), 1),
                           Append(sent, tx), failAt)
         ELSE SendRequestsBestEffort(txs, i + 1, executeWrite(dev, tx), replies,
                                     Append(sent, tx), failAt)

\* The requests are sent one after another, each blocking for its reply.
\* A function code of None makes execute() raise before anything is sent
\* (the exception the comment after the function speaks of); failAt is the
\* number of the request the transport fails, 0 for none.
RECURSIVE SendRequests(_, _, _, _, _, _)
SendRequests(txs, i, dev, replies, sent, failAt) ==
    IF i > Len(txs)
    THEN [status |-> "ok", device |-> dev, replies |-> replies, issued |-> sent]
    ELSE LET tx == txs[i] IN
         IF tx.fcode = None
         THEN [status |-> "ExecuteError", device |-> dev,
               replies |-> replies, issued |-> sent]
         ELSE IF failAt = Len(sent) + 1
         THEN [status |-> "TransportError", device |-> dev,
               replies |-> replies,
               issued |-> Append(sent, [tx EXCEPT !.failed = TRUE])]
         ELSE IF tx.rw = "r"
         THEN SendRequests(txs, i + 1, dev,
                           updateReplies(replies, tx.members, executeRead(dev, tx), 1),
                           Append(sent, tx), failAt)
         ELSE SendRequests(txs, i + 1, executeWrite(dev, tx), replies,
                           Append(sent, tx), failAt)

\* a raised exception, a returned None, a returned tuple
Raised(e) == [status |-> e, kind |-> "raise", values |-> <<>>]
ReturnNone == [status |-> "ok", kind |-> "None", values |-> <<>>]
ReturnTuple(t) == [status |-> "ok", kind |-> "tuple", values |-> t]

\* returnValue that returns the replies as the dict holds them,
\* tuple(replies.values()), instead of walking the caller's names
returnValueDictOrder(points, rw, replies) ==
    IF rw = "r"
    THEN LET names == SetToSeq(DOMAIN replies)
         IN ReturnTuple([i \in 1..Len(names) |-> replies[names[i]]])
    ELSE ReturnNone

\* returnValue that hands a write the tuple of its (empty) replies as well
returnValueTupleOnWrite(points, rw, replies) ==
    IF rw = "r" /\ \E i \in 1..Len(points) : points[i] \notin DOMAIN replies
    THEN Raised("KeyError")
    ELSE ReturnTuple([i \in {k \in 1..Len(points) : rw = "r"} |-> replies[points[i]]])

\* return tuple([replies[name] for name in points]) if rw == 'r' else None
returnValue(points, rw, replies) ==
    IF rw = "r"
    THEN IF \E i \in 1..Len(points) : points[i] \notin DOMAIN replies
         THEN Raised("KeyError")
         ELSE ReturnTuple([i \in 1..Len(points) |-> replies[points[i]]])
    ELSE ReturnNone

\* _requestPoints(points, rw, values) on the device dev
requestPoints(points, rw, values, dev, failAt) ==
    LET sent == SendRequests(RequestsFrom(1, points, rw, values), 1, dev,
                             <<>>, <<>>, failAt)
    IN [ device |-> sent.device,
         issued |-> sent.issued,
         result |-> IF sent.status # "ok" THEN Raised(sent.status)
                    ELSE returnValue(points, rw, sent.replies) ]

----------------------------------------------------------------------------
(* ModbusClient.readPoints, ModbusClient.writePoints *)

\* return self._requestPoints(points, 'r')
readPointsCall(arg, dev, failAt) ==
    requestPoints(MakeIterable(arg), "r", <<>>, dev, failAt)

\* dict(list of pairs), dict(mapping): a later pair replaces an earlier one
\* of the same name
RECURSIVE dictOfPairs(_, _, _)
dictOfPairs(pairs, i, d) ==
    IF i > Len(pairs) THEN d
    ELSE dictOfPairs(pairs, i + 1, (pairs[i][1] :> pairs[i][2]) @@ d)

\* try: values = dict(pointsvalues)
\* except ValueError: values = dict([pointsvalues])
\* Given one pair (name, value), dict() takes the name as its first
\* key-value element: a name that is not two characters long raises the
\* ValueError that is caught; a name of two characters is accepted as an
\* element, and the value, an integer and no sequence, then raises TypeError,
\* which is not caught.
toDict(pointsvalues) ==
    IF pointsvalues.form = "pair"
    THEN IF Len(pointsvalues.pairs[1][1]) = 2
         THEN [status |-> "TypeError", values |-> <<>>]
         ELSE [status |-> "ok", values |-> dictOfPairs(pointsvalues.pairs, 1, <<>>)]
    ELSE [status |-> "ok", values |-> dictOfPairs(pointsvalues.pairs, 1, <<>>)]

\* points = values.keys(); return self._requestPoints(points, 'w', values)
writePointsCall(pointsvalues, dev, failAt) ==
    LET d == toDict(pointsvalues)
    IN IF d.status # "ok"
       THEN [device |-> dev, issued |-> <<>>, result |-> Raised(d.status)]
       ELSE requestPoints(SetToSeq(DOMAIN d.values), "w", d.values, dev, failAt)

\* ModbusTCPTest.testSingleWrite / ModbusRTUTest.testSingleWrite:
\*   reply = client.writePoints((point,newValue)); assert reply is None
\*   reply = client.readPoints(point); assert reply[0] == newValue
\* values of the result keeps the reply that was read back.
testSingleWriteCall(point, newValue, dev, failW, failR) ==
    LET w == writePointsCall([form |-> "pair", pairs |-> << <<point, newValue>> >>],
                             dev, failW)
        r == readPointsCall([iter |-> FALSE, names |-> <<>>, name |-> point],
                            w.device, failR)
    IN IF w.result.kind = "raise" THEN w
       ELSE IF w.result.kind # "None"
       THEN [device |-> w.device, issued |-> w.issued,
             result |-> Raised("AssertionError")]
       ELSE IF r.result.kind = "raise"
       THEN [device |-> r.device, issued |-> w.issued \o r.issued, result |-> r.result]
       ELSE [device |-> r.device, issued |-> w.issued \o r.issued,
             result |-> [status |-> IF r.result.values[1] = newValue
                                    THEN "ok" ELSE "AssertionError",
                         kind |-> IF r.result.values[1] = newValue
                                  THEN "None" ELSE "raise",
                         values |-> r.result.values]]

----------------------------------------------------------------------------
(* The arguments a caller may pass *)

NameLists == UNION {[1..n -> CallNames(slave_points)] : n \in 0..MaxNames}

\* readPoints(list of names) and readPoints(name)
ReadArgs ==
    {[iter |-> TRUE, names |-> s, name |-> ""] : s \in NameLists}
    \cup {[iter |-> FALSE, names |-> <<>>, name |-> n] : n \in CallNames(slave_points)}

NameValuePairs == CallNames(slave_points) \X Values

Mappings ==
    UNION {[S -> Values] :
              S \in {T \in SUBSET CallNames(slave_points) : Cardinality(T) <= MaxNames}}

ItemsOf(m) == SetToSeq({<<n, m[n]>> : n \in DOMAIN m})

\* writePoints(mapping), writePoints(list of pairs), writePoints((name, value))
WriteArgs ==
    {[form |-> "dict", pairs |-> ItemsOf(m)] : m \in Mappings}
    \cup {[form |-> "list", pairs |-> l] :
             l \in UNION {[1..n -> NameValuePairs] : n \in 0..MaxPairs}}
    \cup {[form |-> "pair", pairs |-> <<pv>>] : pv \in NameValuePairs}

----------------------------------------------------------------------------
(* The state machine *)

NoRequest == [op |-> "none", arg |-> <<>>]
NoResult == [status |-> "none", kind |-> "none", values |-> <<>>]

\* the values the slave holds when the client is constructed
InitialDevice ==
    [k \in BlockTypes \X Addrs |-> k[2] % (MaxValue + 1)]

\* no PortLogger has been made
NoPortLogger ==
    /\ masters = <<>>
    /\ done = FALSE
    /\ lpc = "none"
    /\ data_in = <<>>
    /\ closed = FALSE
    /\ ports_to_read = <<>>
    /\ pending = <<>>
    /\ written = <<>>
    /\ logfile = <<>>
    /\ reads = <<>>
    /\ nwrites = 0

NoCall == [message |-> "", recipients |-> [kind |-> "None", tuple |-> <<"", 0>>, list |-> <<>>]]

\* no udp interface has been made
NoUdp ==
    /\ self_recipients = [kind |-> "None", tuple |-> <<"", 0>>, list |-> <<>>]
    /\ ucall = NoCall
    /\ sock_sendto = <<>>
    /\ ustatus = "off"

\* no ModbusClient has been made
NoModbusClient ==
    /\ slave_points = <<>>
    /\ device = InitialDevice
    /\ pc = "none"
    /\ request = NoRequest
    /\ issued = <<>>
    /\ result = NoResult

Init ==
    /\ slave_points \in PointLists
    /\ device = InitialDevice
    /\ pc = "idle"
    /\ request = NoRequest
    /\ issued = <<>>
    /\ result = NoResult
    /\ NoPortLogger
    /\ NoUdp

\* the return of a call whose sort by address was made on self.slave_points
\* itself
FinishSorted(op, arg, out) ==
    /\ pc' = "returned"
    /\ request' = [op |-> op, arg |-> arg]
    /\ device' = out.device
    /\ issued' = out.issued
    /\ result' = out.result
    /\ slave_points' = SortByAddr(slave_points)
    /\ UNCHANGED <<loggerVars, udpVars>>

Finish(op, arg, out) ==
    /\ pc' = "returned"
    /\ request' = [op |-> op, arg |-> arg]
    /\ device' = out.device
    /\ issued' = out.issued
    /\ result' = out.result
    /\ UNCHANGED <<slave_points, loggerVars, udpVars>>

\* the number of requests a call has to send: the transport can fail no later one
readPlan(arg) == RequestsFrom(1, MakeIterable(arg), "r", <<>>)

writePlan(pointsvalues) ==
    LET d == toDict(pointsvalues)
    IN IF d.status # "ok" THEN <<>>
       ELSE RequestsFrom(1, SetToSeq(DOMAIN d.values), "w", d.values)

readPoints ==
    /\ pc = "idle"
    /\ \E arg \in ReadArgs, failAt \in 0..MaxFail :
          /\ failAt <= Len(readPlan(arg))
          /\ Finish("readPoints", arg, readPointsCall(arg, device, failAt))

writePoints ==
    /\ pc = "idle"
    /\ \E pointsvalues \in WriteArgs, failAt \in 0..MaxFail :
          /\ failAt <= Len(writePlan(pointsvalues))
          /\ Finish("writePoints", pointsvalues,
                    writePointsCall(pointsvalues, device, failAt))

testSingleWrite ==
    /\ pc = "idle"
    /\ \E point \in CallNames(slave_points), newValue \in Values,
          failW \in 0..MaxFail, failR \in 0..MaxFail :
          Finish("testSingleWrite", [point |-> point, newValue |-> newValue],
                 testSingleWriteCall(point, newValue, device, failW, failR))

\* the caller takes the result; the requests and replies of the call are gone
Return ==
    /\ pc = "returned"
    /\ pc' = "idle"
    /\ request' = NoRequest
    /\ issued' = <<>>
    /\ result' = NoResult
    /\ UNCHANGED <<slave_points, device, loggerVars, udpVars>>

Next == readPoints \/ writePoints \/ testSingleWrite \/ Return

Spec == Init /\ [][Next]_vars

----------------------------------------------------------------------------
(* portlogger.PortLogger: the thread that mirrors the ports *)

BUF_LEN == 1024

\* the string run() looks for: '\x81\x04'
MysteryString == <<129, 4>>

\* the strings a device writes to its port, as the codes of their characters
Strings == { <<129, 4>>, <<65>>, <<129, 4, 65>> }

Min(a, b) == IF a <= b THEN a ELSE b

\* for i in xrange(number_of_ports): master, slave = pty.openpty(): the
\* process gets the next free descriptors, from 3 on, in turn
openpty_masters(number_of_ports) == [i \in 1..number_of_ports |-> 2 * i + 1]
openpty_slaves(number_of_ports) == [i \in 1..number_of_ports |-> 2 * i + 2]

\* self.slaves
slaves == openpty_slaves(Len(masters))

\* self.masters_to_slaves = dict(zip(self.masters, self.slaves))
masters_to_slaves ==
    [m \in Range(masters) |-> slaves[CHOOSE i \in 1..Len(masters) : masters[i] = m]]

\* os.ttyname(fd) of the slave end of a pseudoterminal: /dev/pts/<number>,
\* given here as the number
ttyname(fd) == (fd - 4) \div 2

\* PortLogger(number_of_ports): the masters of the pseudoterminals opened;
\* start() has been called
PortLoggerInit(number_of_ports) ==
    /\ masters = openpty_masters(number_of_ports)
    /\ done = FALSE
    /\ lpc = "while"
    /\ data_in = <<>>
    /\ closed = FALSE
    /\ ports_to_read = <<>>
    /\ pending = [m \in Range(openpty_masters(number_of_ports)) |-> <<>>]
    /\ written = [m \in Range(openpty_masters(number_of_ports)) |-> <<>>]
    /\ logfile = <<>>
    /\ reads = <<>>
    /\ nwrites = 0

\* select(self.masters, [], [], .01): the masters that have bytes to read
select(ms, pend) == SelectSeq(ms, LAMBDA m : pend[m] # <<>>)

\* [x for x in self.masters if x != in_port]
out_ports(ms, in_port) == SelectSeq(ms, LAMBDA x : x # in_port)

HexDigit == <<"0", "1", "2", "3", "4", "5", "6", "7", "8", "9",
              "a", "b", "c", "d", "e", "f">>

\* "%02.x" % ord(ch)
hex02(ch) == HexDigit[(ch \div 16) + 1] \o HexDigit[(ch % 16) + 1]

\* '.'.join(["%02.x" % ord(ch) for ch in packet])
RECURSIVE packet_string(_)
packet_string(packet) ==
    IF packet = <<>> THEN ""
    ELSE IF Len(packet) = 1 THEN hex02(packet[1])
    ELSE hex02(packet[1]) \o "." \o packet_string(Tail(packet))

\* log_packet(port_fd, packet): one entry of the log (its time stamp left
\* out); chunk is the number of the os.read that returned the packet
log_packet(log, port_fd, packet, chunk) ==
    Append(log, [ slave_name |-> ttyname(masters_to_slaves[port_fd]),
                  packet_string |-> packet_string(packet),
                  chunk |-> chunk ])

\* for out_port in ...: os.write(out_port, data_in), on the ports' buffers w;
\* chunk is the number of the os.read that returned data_in
RECURSIVE os_write_all(_, _, _, _, _)
os_write_all(w, outs, i, chunk, data) ==
    IF i > Len(outs) THEN w
    ELSE os_write_all([w EXCEPT ![outs[i]] =
                            Append(@, [chunk |-> chunk, data |-> data])],
                      outs, i + 1, chunk, data)

\* a device writes a string to the slave end of its port
Serial_write ==
    /\ lpc # "none"
    /\ nwrites < MaxWrites
    /\ \E m \in DOMAIN pending, s \in Strings :
          pending' = [pending EXCEPT ![m] = @ \o s]
    /\ nwrites' = nwrites + 1
    /\ UNCHANGED <<masters, done, lpc, data_in, closed, ports_to_read, written,
                   logfile, reads>>
    /\ UNCHANGED <<clientVars, udpVars>>

\* while not self.done: select(...) returns the ports to read; with none to
\* read it times out and the loop comes back here
run_select ==
    /\ lpc = "while"
    /\ ~done
    /\ select(masters, pending) # <<>>
    /\ ports_to_read' = select(masters, pending)
    /\ lpc' = "for"
    /\ UNCHANGED <<masters, done, data_in, closed, pending, written, logfile,
                   reads, nwrites>>
    /\ UNCHANGED <<clientVars, udpVars>>

\* the for loop goes on to its next port, or back to the while
next_port(rest) ==
    /\ ports_to_read' = rest
    /\ lpc' = IF rest = <<>> THEN "while" ELSE "for"
    /\ data_in' = <<>>

\* for in_port in ports_to_read: os.read returns the bytes that have
\* arrived on the port, at most BUF_LEN of them; on the mystery string:
\* continue
run_for ==
    /\ lpc = "for"
    /\ LET in_port == Head(ports_to_read)
           n == Min(Len(pending[in_port]), BUF_LEN)
           data == SubSeq(pending[in_port], 1, n) IN
          /\ pending' = [pending EXCEPT
                            ![in_port] = SubSeq(@, n + 1, Len(@))]
          /\ reads' = Append(reads, [port |-> in_port, data |-> data])
          /\ IF data = MysteryString
             THEN next_port(Tail(ports_to_read))
             ELSE /\ data_in' = data
                  /\ lpc' = "write"
                  /\ UNCHANGED ports_to_read
    /\ UNCHANGED <<masters, done, closed, written, logfile, nwrites>>
    /\ UNCHANGED <<clientVars, udpVars>>

\* for out_port in [...]: os.write(out_port, data_in)
run_write ==
    /\ lpc = "write"
    /\ written' = os_write_all(written, out_ports(masters, Head(ports_to_read)),
                               1, Len(reads), data_in)
    /\ lpc' = "log"
    /\ UNCHANGED <<masters, done, data_in, closed, ports_to_read, pending,
                   logfile, reads, nwrites>>
    /\ UNCHANGED <<clientVars, udpVars>>

\* self.log_packet(in_port, data_in): self.log.write raises ValueError on a
\* closed file, which nothing catches: the thread ends
run_log ==
    /\ lpc = "log"
    /\ IF closed
       THEN /\ lpc' = "crashed"
            /\ UNCHANGED <<logfile, ports_to_read, data_in>>
       ELSE /\ logfile' = log_packet(logfile, Head(ports_to_read), data_in,
                                     Len(reads))
            /\ next_port(Tail(ports_to_read))
    /\ UNCHANGED <<masters, done, closed, pending, written, reads, nwrites>>
    /\ UNCHANGED <<clientVars, udpVars>>

\* a loop that returns on the flag only once no port has bytes left to read
run_exitOnIdle ==
    /\ lpc = "while"
    /\ done
    /\ select(masters, pending) = <<>>
    /\ lpc' = "exited"
    /\ UNCHANGED <<masters, done, data_in, closed, ports_to_read, pending,
                   written, logfile, reads, nwrites>>
    /\ UNCHANGED <<clientVars, udpVars>>

\* while not self.done: the flag is set and run() returns
run_exit ==
    /\ lpc = "while"
    /\ done
    /\ lpc' = "exited"
    /\ UNCHANGED <<masters, done, data_in, closed, ports_to_read, pending,
                   written, logfile, reads, nwrites>>
    /\ UNCHANGED <<clientVars, udpVars>>

\* stop(): self.done = True
stop ==
    /\ lpc # "none"
    /\ ~done
    /\ done' = TRUE
    /\ UNCHANGED <<masters, lpc, data_in, closed, ports_to_read, pending,
                   written, logfile, reads, nwrites>>
    /\ UNCHANGED <<clientVars, udpVars>>

\* stop(): sleep(.1); self.log.close() - the sleep over, whatever the thread
\* of run() has got done meanwhile
stop_close ==
    /\ done
    /\ ~closed
    /\ closed' = TRUE
    /\ UNCHANGED <<masters, done, lpc, data_in, ports_to_read, pending,
                   written, logfile, reads, nwrites>>
    /\ UNCHANGED <<clientVars, udpVars>>

InitLogger ==
    /\ NoModbusClient
    /\ NoUdp
    /\ \E number_of_ports \in 2..MaxPorts : PortLoggerInit(number_of_ports)

\* the steps of the thread of run()
run == run_select \/ run_for \/ run_write \/ run_log \/ run_exit

NextLogger == Serial_write \/ run \/ stop \/ stop_close

SpecLogger == InitLogger /\ [][NextLogger]_vars

\* the thread of run() is scheduled again and again
SpecLoggerFair == SpecLogger /\ WF_vars(run)

----------------------------------------------------------------------------
(* ifaces.udp: sendMessage *)

\* the (ipaddress, port) tuples of the interfaces of the tests
Addresses == { <<"127.0.0.1", 1500>>, <<"127.0.0.1", 2500>>, <<"127.0.0.1", 3500>> }

Messages == {"One", "Two"}

\* a value given as recipients: None, one (ipaddress, port) tuple (held in
\* the field tuple), or a list of such tuples (held in the field list)
NoRecipients == [kind |-> "None", tuple |-> <<"", 0>>, list |-> <<>>]
RecipientValues ==
    {NoRecipients}
    \cup {[kind |-> "tuple", tuple |-> a, list |-> <<>>] : a \in Addresses}
    \cup {[kind |-> "list", tuple |-> <<"", 0>>, list |-> l] :
             l \in UNION {[1..n -> Addresses] : n \in 0..MaxRecipients}}

\* sendMessage that keeps the recipients it was given as the new default
sendMessageStoring(recipients_of_self, message, recipients, failAt) ==
    LET given == IF recipients.kind = "None" THEN recipients_of_self ELSE recipients
        list == IF given.kind = "tuple" THEN <<given.tuple>> ELSE given.list
    IN IF given.kind = "None"
       THEN [recipients |-> recipients_of_self, sendto |-> <<>>, status |-> "TypeError"]
       ELSE IF failAt \in 1..Len(list)
       THEN [ recipients |-> given,
              sendto |-> [i \in 1..(failAt - 1) |->
                             [message |-> message, address |-> list[i]]],
              status |-> "socket.error" ]
       ELSE [ recipients |-> given,
              sendto |-> [i \in 1..Len(list) |->
                             [message |-> message, address |-> list[i]]],
              status |-> "ok" ]

\* udp.sendMessage(message, recipients) on an interface whose self.recipients
\* is recipients_of_self; failAt is the number of the sendto call that
\* raises, 0 for none. Iterating None raises TypeError.
sendMessage(recipients_of_self, message, recipients, failAt) ==
    LET given == IF recipients.kind = "None" THEN recipients_of_self ELSE recipients
        list == IF given.kind = "tuple" THEN <<given.tuple>> ELSE given.list
    IN IF given.kind = "None"
       THEN [recipients |-> recipients_of_self, sendto |-> <<>>, status |-> "TypeError"]
       ELSE IF failAt \in 1..Len(list)
       THEN [ recipients |-> recipients_of_self,
              sendto |-> [i \in 1..(failAt - 1) |->
                             [message |-> message, address |-> list[i]]],
              status |-> "socket.error" ]
       ELSE [ recipients |-> recipients_of_self,
              sendto |-> [i \in 1..Len(list) |->
                             [message |-> message, address |-> list[i]]],
              status |-> "ok" ]

\* a call of sendMessage on the interface
udp_sendMessage ==
    /\ ustatus = "none"
    /\ \E message \in Messages, recipients \in RecipientValues,
          failAt \in 0..MaxFail :
          LET out == sendMessage(self_recipients, message, recipients, failAt) IN
          /\ failAt <= Len(out.sendto) + 1
          /\ failAt = 0 \/ out.status = "socket.error"
          /\ ucall' = [message |-> message, recipients |-> recipients]
          /\ self_recipients' = out.recipients
          /\ sock_sendto' = out.sendto
          /\ ustatus' = out.status
    /\ UNCHANGED <<clientVars, loggerVars>>

\* udp(sport, recipients), initialize()
InitUDP ==
    /\ NoModbusClient
    /\ NoPortLogger
    /\ self_recipients \in RecipientValues
    /\ ucall = NoCall
    /\ sock_sendto = <<>>
    /\ ustatus = "none"

\* the caller goes on after the call
udp_return ==
    /\ ustatus \notin {"none", "off"}
    /\ ucall' = NoCall
    /\ sock_sendto' = <<>>
    /\ ustatus' = "none"
    /\ UNCHANGED self_recipients
    /\ UNCHANGED <<clientVars, loggerVars>>

NextUDP == udp_sendMessage \/ udp_return

SpecUDP == InitUDP /\ [][NextUDP]_vars

----------------------------------------------------------------------------
(* Vocabulary of the properties *)

Known(n) == n \in NamesOf(slave_points)

\* the descriptor of a known name
Descriptor(n) ==
    slave_points[CHOOSE i \in 1..Len(slave_points) : slave_points[i].name = n]

AddrOf(n) == Descriptor(n).addr
TypeOf(n) == Descriptor(n).blocktype

\* a block type with write function codes
Writable(t) == FUNCTION_MAP[t][2] # None /\ FUNCTION_MAP[t][3] # None

Returned(op) == pc = "returned" /\ request.op = op

\* the names a returned readPoints was asked for, in the caller's order
ReadNames == IF request.arg.iter THEN request.arg.names ELSE <<request.arg.name>>

\* the names a returned writePoints was given
WriteNames == {request.arg.pairs[i][1] : i \in 1..Len(request.arg.pairs)}

\* the value a returned writePoints was given for a name (the last, in a list)
WriteValue(n) ==
    request.arg.pairs[CHOOSE i \in 1..Len(request.arg.pairs) :
                         /\ request.arg.pairs[i][1] = n
                         /\ \A j \in (i + 1)..Len(request.arg.pairs) :
                               request.arg.pairs[j][1] # n][2]

MemberNames(tx) == {tx.members[k].name : k \in 1..Len(tx.members)}

\* two requested names of one block type with no requested point of that
\* type at an address strictly between theirs
AddressConsecutive(names, p, q) ==
    /\ Known(p) /\ Known(q) /\ TypeOf(p) = TypeOf(q) /\ AddrOf(p) < AddrOf(q)
    /\ ~\E r \in names : /\ Known(r) /\ TypeOf(r) = TypeOf(p)
                         /\ AddrOf(p) < AddrOf(r) /\ AddrOf(r) < AddrOf(q)

SameTransaction(p, q) ==
    \E i \in 1..Len(issued) : {p, q} \subseteq MemberNames(issued[i])

----------------------------------------------------------------------------
(* C1 *)

\* C1 (order preservation): a readPoints call given a sequence N of known
\* names - in any order, with repetitions - either fails in the transport or
\* returns a tuple as long as N whose i-th element is the value the device
\* holds at the block type and address of the point named N[i].
C1_OrderPreservation ==
    (Returned("readPoints") /\ \A i \in 1..Len(ReadNames) : Known(ReadNames[i]))
    => /\ result.status \in {"ok", "TransportError"}
       /\ result.status = "ok" =>
            /\ result.kind = "tuple"
            /\ Len(result.values) = Len(ReadNames)
            /\ \A i \in 1..Len(ReadNames) :
                  result.values[i]
                    = device[<<TypeOf(ReadNames[i]), AddrOf(ReadNames[i])>>]

\* a read of known names, not in address order, one of them twice, whose
\* values differ, has returned
C1_Witness ==
    /\ Returned("readPoints") /\ result.status = "ok"
    /\ \A i \in 1..Len(ReadNames) : Known(ReadNames[i])
    /\ \E i, j \in 1..Len(ReadNames) : i < j /\ ReadNames[i] = ReadNames[j]
    /\ \E i, j \in 1..Len(ReadNames) :
          /\ i < j /\ TypeOf(ReadNames[i]) = TypeOf(ReadNames[j])
          /\ AddrOf(ReadNames[i]) > AddrOf(ReadNames[j])
          /\ result.values[i] # result.values[j]

----------------------------------------------------------------------------
(* C2 *)

\* the analog inputs of the tank at the addresses 10, 12, 14, 25
ExampleReadNames == {"pressure", "level", "flow", "temperature"}

\* C2 (read grouping threshold): in a readPoints call that returns, two
\* address-consecutive requested points of one block type that are more than
\* MAXDISTANCE apart are fetched by different transactions; so a request for
\* analog inputs of the tank that include those at 10 and at 25 is served by
\* exactly two reads, one from 10 up to the highest requested address below
\* 25 (quantity 5 when 14 is requested) and one of quantity 1 from 25.
C2_ReadGroupingThreshold ==
    (Returned("readPoints") /\ result.status = "ok")
    => /\ \A p, q \in Range(ReadNames) :
             (AddressConsecutive(Range(ReadNames), p, q)
                 /\ AddrOf(q) - AddrOf(p) > MAXDISTANCE)
             => ~SameTransaction(p, q)
       /\ (slave_points = TankPoints
             /\ {"pressure", "temperature"} \subseteq Range(ReadNames)
             /\ Range(ReadNames) \subseteq ExampleReadNames)
          => LET below == {AddrOf(n) : n \in Range(ReadNames) \ {"temperature"}}
                 top == CHOOSE a \in below : \A b \in below : b <= a
             IN /\ Len(issued) = 2
                /\ issued[1].start = 10 /\ issued[1].quantity = top - 10 + 1
                /\ issued[2].start = 25 /\ issued[2].quantity = 1

----------------------------------------------------------------------------
(* C3 *)

\* C3 (write contiguity): in a writePoints call that returns, two
\* address-consecutive write targets of one block type whose addresses differ
\* by more than 1 are in different transactions; so writing the valve's
\* holding registers at 10, 11 and 13 sends exactly two writes, a multiple
\* write of two values from 10 and a single write at 13.
C3_WriteContiguity ==
    (Returned("writePoints") /\ result.status = "ok")
    => /\ \A p, q \in WriteNames :
             (AddressConsecutive(WriteNames, p, q) /\ AddrOf(q) - AddrOf(p) > 1)
             => ~SameTransaction(p, q)
       /\ (slave_points = ValvePoints
             /\ WriteNames = {"setpoint", "sp", "alarmlevel"})
          => /\ Len(issued) = 2
             /\ issued[1].fcode = "WRITE_MULTIPLE_REGISTERS"
             /\ issued[1].start = 10 /\ Len(issued[1].output.items) = 2
             /\ issued[2].fcode = "WRITE_SINGLE_REGISTER"
             /\ issued[2].start = 13

----------------------------------------------------------------------------
(* C4 *)

\* C4 (write address safety): every write a writePoints call sends stores
\* its k-th value (from 0) at start+k, and that address is the configured
\* address of the group's k-th member and that value the one supplied for
\* it; hence no address other than a requested point's is written.
C4_WriteAddressSafety ==
    Returned("writePoints")
    => \A i \in 1..Len(issued) :
          LET tx == issued[i] IN
          /\ Len(tx.output.items) = Len(tx.members)
          /\ \A k \in 1..Len(tx.members) :
                /\ tx.start + (k - 1) = AddrOf(tx.members[k].name)
                /\ tx.output.items[k] = WriteValue(tx.members[k].name)

----------------------------------------------------------------------------
(* C5 *)

\* C5 (read-only rejection): a writePoints call that names a point of a
\* block type without write function codes fails, and no request of the
\* call - none for its writable points either - is sent.  (Any exception is
\* taken for NotWritableError here.)
C5_ReadOnlyRejection ==
    (Returned("writePoints")
        /\ \E n \in WriteNames : Known(n) /\ ~Writable(TypeOf(n)))
    => /\ result.kind = "raise"
       /\ issued = <<>>

----------------------------------------------------------------------------
(* C6 *)

\* C6 (unknown point on read): a readPoints call with a name that has no
\* descriptor fails, and no request has been sent for the known names of the
\* call.  (Any exception is taken for UnknownPointError here.)
C6_UnknownPointOnRead ==
    (Returned("readPoints") /\ \E i \in 1..Len(ReadNames) : ~Known(ReadNames[i]))
    => /\ result.kind = "raise"
       /\ issued = <<>>

----------------------------------------------------------------------------
(* C7 *)

\* C7 (unknown point on write): a writePoints call given a name that has no
\* descriptor fails; it does not return normally.  (Any exception is taken
\* for UnknownPointError here.)
C7_UnknownPointOnWrite ==
    (Returned("writePoints") /\ \E n \in WriteNames : ~Known(n))
    => result.kind = "raise"

----------------------------------------------------------------------------
(* C8 *)

\* C8 (type isolation): the members of every request sent by readPoints or
\* writePoints are points of one block type, and the request's function code
\* is an entry of that block type's row of FUNCTION_MAP.
C8_TypeIsolation ==
    \A i \in 1..Len(issued) :
        LET tx == issued[i] IN
        /\ tx.members # <<>>
        /\ \A k \in 1..Len(tx.members) :
              /\ TypeOf(tx.members[k].name) = TypeOf(tx.members[1].name)
              /\ tx.fcode \in Range(FUNCTION_MAP[TypeOf(tx.members[k].name)])
        /\ tx.fcode # None

\* a call for points of different block types has sent its requests
C8_Witness ==
    /\ pc = "returned" /\ result.status = "ok"
    /\ \E i, j \in 1..Len(issued) :
          TypeOf(issued[i].members[1].name) # TypeOf(issued[j].members[1].name)
    /\ \E i \in 1..Len(issued) : Len(issued[i].members) >= 2

----------------------------------------------------------------------------
(* C9 *)

\* C9 (single vs. multi selection): a write request built from one member
\* carries the block type's write-single code and a scalar value; one built
\* from two or more members carries the write-multiple code and a list with
\* one value per member; a read request carries the read code whatever the
\* size of its group.
C9_SingleVsMulti ==
    \A i \in 1..Len(issued) :
        LET tx == issued[i]
            row == FUNCTION_MAP[TypeOf(tx.members[1].name)]
        IN /\ (tx.rw = "w" /\ Len(tx.members) = 1)
                => /\ tx.fcode = row[2]
                   /\ tx.output.scalar /\ Len(tx.output.items) = 1
           /\ (tx.rw = "w" /\ Len(tx.members) >= 2)
                => /\ tx.fcode = row[3]
                   /\ ~tx.output.scalar
                   /\ Len(tx.output.items) = Len(tx.members)
           /\ tx.rw = "r" => tx.fcode = row[1]

\* a write of several points has been sent as one request
C9_Witness ==
    /\ Returned("writePoints") /\ result.status = "ok"
    /\ \E i \in 1..Len(issued) : Len(issued[i].members) >= 2

----------------------------------------------------------------------------
(* C10 *)

\* C10 (single-point round trip): writePoints((p, v)) for a writable point p
\* followed at once by readPoints(p), the transport failing neither, returns
\* the one-element tuple (v).
C10_SinglePointRoundTrip ==
    (Returned("testSingleWrite")
        /\ Known(request.arg.point) /\ Writable(TypeOf(request.arg.point))
        /\ result.status # "TransportError")
    => /\ result.status = "ok"
       /\ result.values = <<request.arg.newValue>>

----------------------------------------------------------------------------
(* C11 *)

\* the device cell of a known name
Cell(n) == <<TypeOf(n), AddrOf(n)>>

\* C11 (multi-point write/read consistency): every writePoints call that
\* succeeds on known, writable points leaves each point of the list holding
\* the value just written to it if it was named (and no other named point
\* shares its address), and the value it held before if neither it nor a
\* point at its address was named.  readPoints returns the values the device
\* holds (C1), so after any sequence of such writes it returns the value
\* last written to each point, or the initial one.
C11_WriteReadConsistency ==
    [][ ( /\ pc = "idle" /\ pc' = "returned"
          /\ request'.op = "writePoints" /\ result'.status = "ok"
          /\ \A n \in WriteNames' : Known(n) /\ Writable(TypeOf(n)) )
        => \A n \in NamesOf(slave_points) :
              LET sharing == {m \in WriteNames' : Cell(m) = Cell(n)}
              IN /\ sharing = {n} => device'[Cell(n)] = WriteValue(n)'
                 /\ sharing = {} => device'[Cell(n)] = device[Cell(n)] ]_vars

----------------------------------------------------------------------------
(* C12 *)

\* C12 (read value correctness): the value a readPoints call that returns
\* gives for a requested point is the element of the reply of the point's
\* request at index (address of the point - start address of the request),
\* which is the value the device holds at the point's own address; the
\* result has one value per requested name, none for a gap address.
C12_ReadValueCorrectness ==
    (Returned("readPoints") /\ result.status = "ok")
    => /\ Len(result.values) = Len(ReadNames)
       /\ \A i \in 1..Len(ReadNames) :
             \E j \in 1..Len(issued) :
                LET tx == issued[j]
                    reply == executeRead(device, tx)
                    index == AddrOf(ReadNames[i]) - tx.start
                IN /\ ReadNames[i] \in MemberNames(tx)
                   /\ index \in 0..(tx.quantity - 1)
                   /\ result.values[i] = reply[index + 1]
                   /\ reply[index + 1] = device[Cell(ReadNames[i])]

\* a read has returned whose request covers a gap address, the device holding
\* there another value than at the requested point behind the gap
C12_Witness ==
    /\ Returned("readPoints") /\ result.status = "ok"
    /\ \E j \in 1..Len(issued) :
          LET tx == issued[j]
              reply == executeRead(device, tx)
          IN \E k \in 2..Len(tx.members) :
                /\ tx.members[k].offset + 1 > k
                /\ reply[k] # reply[tx.members[k].offset + 1]

----------------------------------------------------------------------------
(* C13 *)

\* C13 (all-or-nothing failure): when the transport raises on a request of
\* a readPoints or writePoints call, that request is the last one the call
\* issues (no retry, no later request, no per-point fallback), the call
\* raises the transport's error, and it returns no value.
C13_AllOrNothingFailure ==
    (pc = "returned" /\ request.op \in {"readPoints", "writePoints"})
    => \A j \in 1..Len(issued) :
          issued[j].failed
          => /\ j = Len(issued)
             /\ result.status = "TransportError"
             /\ result.kind = "raise"
             /\ result.values = <<>>

\* the transport has failed a request of a read that had requests sent
\* before it and requests still to send
C13_Witness ==
    /\ Returned("readPoints")
    /\ Len(issued) = 2
    /\ issued[2].failed
    /\ Len(readPlan(request.arg)) > 2

----------------------------------------------------------------------------
(* C14 *)

\* C14 (writePoints returns None): a writePoints call that completes
\* without an error returns None, no value, whether it was given one
\* (name, value) pair, a list of pairs or a mapping.
C14_WriteReturnsNone ==
    (Returned("writePoints") /\ result.status = "ok")
    => /\ request.arg.form \in {"pair", "list", "dict"}
       /\ result.kind = "None"
       /\ result.values = <<>>

\* a write given one (name, value) pair has sent its request and completed
C14_Witness ==
    /\ Returned("writePoints")
    /\ result.status = "ok"
    /\ request.arg.form = "pair"
    /\ Len(issued) = 1

----------------------------------------------------------------------------
(* C15 *)

\* the addresses of the members of a request
MemberAddrs(tx) == {tx.members[k].pt.addr : k \in 1..Len(tx.members)}

SetMin(S) == CHOOSE x \in S : \A y \in S : x <= y
SetMax(S) == CHOOSE x \in S : \A y \in S : y <= x

\* C15 (read transaction shape): every group of a readPoints call is sent
\* as exactly one call of the transport, with the configured slave id, the
\* read function code of the block type of the group, the lowest member
\* address as the start address and (highest member address - start + 1)
\* as the quantity.
C15_ReadTransactionShape ==
    Returned("readPoints")
    => /\ \A j \in 1..Len(issued) :
             LET tx == issued[j] IN
             /\ tx.slave = slaveAddress
             /\ tx.members # <<>>
             /\ \A k \in 1..Len(tx.members) : tx.members[k].pt.blocktype = tx.blocktype
             /\ tx.fcode = FUNCTION_MAP[tx.blocktype][1]
             /\ tx.start = SetMin(MemberAddrs(tx))
             /\ tx.quantity = SetMax(MemberAddrs(tx)) - tx.start + 1
       /\ \A i, j \in 1..Len(issued) :
             i # j => MemberNames(issued[i]) \cap MemberNames(issued[j]) = {}
       /\ result.status = "ok"
          => \A n \in Range(ReadNames) : \E j \in 1..Len(issued) : n \in MemberNames(issued[j])

\* a read has returned one of whose requests spans more addresses than it
\* has members
C15_Witness ==
    /\ Returned("readPoints")
    /\ result.status = "ok"
    /\ \E j \in 1..Len(issued) :
          /\ Len(issued[j].members) >= 2
          /\ issued[j].quantity > Len(issued[j].members)

----------------------------------------------------------------------------
(* C16 *)

\* the number of times the chunk of the i-th os.read was written to port q
TimesWritten(i, q) ==
    Cardinality({k \in 1..Len(written[q]) : written[q][k].chunk = i})

\* the i-th chunk read has gone through its pass of the for loop
Handled(i) == i < Len(reads) \/ lpc \notin {"write", "log"}

\* C16 (PortLogger mirroring): every chunk the thread has read from a port
\* and handled has been written, as read, to every other port of the
\* logger, and has not been written to the port it came from.
C16_PortLoggerMirroring ==
    \A i \in 1..Len(reads) :
       \A q \in Range(masters) :
          IF q = reads[i].port
          THEN TimesWritten(i, q) = 0
          ELSE Handled(i)
               => /\ TimesWritten(i, q) = 1
                  /\ \A k \in 1..Len(written[q]) :
                        written[q][k].chunk = i => written[q][k].data = reads[i].data

----------------------------------------------------------------------------
(* C17 *)

\* the number of entries of the sequence s that satisfy the test
Count(s, Test(_)) == Cardinality({i \in 1..Len(s) : Test(s[i])})

\* the recipients a call is to reach: its argument if one was given, else
\* the default of the interface, one tuple standing for a list of one
Effective(call, default) ==
    LET given == IF call.recipients.kind = "None" THEN default ELSE call.recipients
    IN IF given.kind = "tuple" THEN <<given.tuple>> ELSE given.list

\* C17 (UDP sendMessage fan-out): a sendMessage call that completes has made
\* one sendto call, with the message, for every entry of the effective
\* recipient list (the argument if given, the constructor's list otherwise,
\* a single (ip, port) tuple counting as a list of one), so every address
\* receives the message as often as the list names it, once when it is
\* named once; and the call leaves the default recipients of the interface
\* as they were.
C17_SendMessageFanOut ==
    [][ ustatus' = "ok"
        => LET effective == Effective(ucall', self_recipients) IN
           /\ Len(sock_sendto') = Len(effective)
           /\ \A i \in 1..Len(sock_sendto') : sock_sendto'[i].message = ucall'.message
           /\ \A a \in Addresses :
                 Count(sock_sendto', LAMBDA c : c.address = a)
                    = Count(effective, LAMBDA e : e = a)
           /\ self_recipients' = self_recipients ]_vars

\* an interface made with a list of two recipients has sent a message to the
\* one tuple given in the call, another address than its own two
C17_Witness ==
    /\ ustatus = "ok"
    /\ ucall.recipients.kind = "tuple"
    /\ self_recipients.kind = "list"
    /\ Len(self_recipients.list) = 2
    /\ ucall.recipients.tuple \notin Range(self_recipients.list)
    /\ Len(sock_sendto) = 1

----------------------------------------------------------------------------
(* C18 *)

\* the requests of the call that have the name among their members
RequestsWith(n) == {j \in 1..Len(issued) : n \in MemberNames(issued[j])}

\* C18 (read merge rule): in a readPoints call that returns, two
\* address-consecutive requested points of one block type that are at most
\* MAXDISTANCE apart, MAXDISTANCE included, are fetched by one and the same
\* single request, which reads every address from the one to the other; the
\* values of the addresses between them are not in the result.
C18_ReadMergeRule ==
    (Returned("readPoints") /\ result.status = "ok")
    => /\ \A p, q \in Range(ReadNames) :
             (AddressConsecutive(Range(ReadNames), p, q)
                 /\ AddrOf(q) - AddrOf(p) <= MAXDISTANCE)
             => /\ Cardinality(RequestsWith(p)) = 1
                /\ RequestsWith(p) = RequestsWith(q)
                /\ \A j \in RequestsWith(p) :
                      /\ issued[j].start <= AddrOf(p)
                      /\ AddrOf(q) <= issued[j].start + issued[j].quantity - 1
       /\ Len(result.values) = Len(ReadNames)

\* a read has fetched two address-consecutive points exactly MAXDISTANCE
\* apart
C18_Witness ==
    /\ Returned("readPoints")
    /\ result.status = "ok"
    /\ \E p, q \in Range(ReadNames) :
          /\ AddressConsecutive(Range(ReadNames), p, q)
          /\ AddrOf(q) - AddrOf(p) = MAXDISTANCE
          /\ SameTransaction(p, q)

----------------------------------------------------------------------------
(* C19 *)

\* the write targets of a returned writePoints of block type t at address a
TargetsAt(t, a) ==
    {n \in WriteNames : Known(n) /\ TypeOf(n) = t /\ AddrOf(n) = a}

\* the addresses a..b are a maximal run of write targets of block type t:
\* one target at each of them, none at a - 1 and none at b + 1
MaximalRun(t, a, b) ==
    /\ a < b
    /\ \A x \in a..b : Cardinality(TargetsAt(t, x)) = 1
    /\ TargetsAt(t, a - 1) = {}
    /\ TargetsAt(t, b + 1) = {}

\* C19 (write merge rule and value order): in a writePoints call that
\* completes, a maximal run of write targets of one block type at the
\* addresses a, a+1, ..., a+n (n >= 1) is written by one multiple write
\* that starts at a and whose values are exactly the n+1 values the call
\* gave for the targets, in ascending order of their addresses.
C19_WriteMergeRule ==
    (Returned("writePoints") /\ result.status = "ok")
    => \A t \in {COILS, HOLDING_REGISTERS} : \A a, b \in Addrs :
          MaximalRun(t, a, b)
          => \E j \in 1..Len(issued) :
                /\ issued[j].blocktype = t
                /\ issued[j].fcode = FUNCTION_MAP[t][3]
                /\ issued[j].start = a
                /\ ~issued[j].output.scalar
                /\ Len(issued[j].output.items) = b - a + 1
                /\ \A x \in a..b :
                      issued[j].output.items[x - a + 1]
                         = WriteValue(CHOOSE n \in TargetsAt(t, x) : TRUE)

----------------------------------------------------------------------------
(* C20 *)

\* the addresses of its block a write request stores a value at
AddrsWritten(tx) == tx.start..(tx.start + Len(tx.output.items) - 1)

\* C20 (same-address write targets): in a writePoints call that completes,
\* two distinct write targets of one block type at one address are not
\* members of one request, and the call writes no value to the address after
\* theirs unless that address is a target of the call itself.
C20_SameAddressTargets ==
    (Returned("writePoints") /\ result.status = "ok")
    => \A p, q \in WriteNames :
          (/\ p # q /\ Known(p) /\ Known(q)
           /\ TypeOf(p) = TypeOf(q) /\ AddrOf(p) = AddrOf(q))
          => /\ ~SameTransaction(p, q)
             /\ TargetsAt(TypeOf(p), AddrOf(p) + 1) = {}
                => \A j \in 1..Len(issued) :
                      issued[j].blocktype = TypeOf(p)
                      => AddrOf(p) + 1 \notin AddrsWritten(issued[j])

----------------------------------------------------------------------------
(* C21 *)

\* C21 (offset invariant): in every request a call has sent, the first
\* member of the group has offset 0, the offset of every member is its
\* address minus the start address of the request and is not negative, and
\* along the members neither the offsets nor the addresses decrease.
C21_OffsetInvariant ==
    pc = "returned"
    => \A j \in 1..Len(issued) :
          LET members == issued[j].members IN
          /\ members # <<>>
          /\ members[1].offset = 0
          /\ \A k \in 1..Len(members) :
                /\ members[k].offset = getaddr(members[k].pt) - issued[j].start
                /\ members[k].offset >= 0
          /\ \A k \in 1..(Len(members) - 1) :
                /\ members[k].offset <= members[k + 1].offset
                /\ getaddr(members[k].pt) <= getaddr(members[k + 1].pt)

\* a call has sent a request for a group of three points with addresses
\* left out between them
C21_Witness ==
    /\ pc = "returned"
    /\ request.op \in {"readPoints", "writePoints"}
    /\ \E j \in 1..Len(issued) :
          /\ Len(issued[j].members) = 3
          /\ issued[j].members[2].offset > 1
          /\ issued[j].members[3].offset > issued[j].members[2].offset + 1

----------------------------------------------------------------------------
(* C22 *)

\* the names a returned readPoints or writePoints was given
RequestedNames ==
    IF request.op = "readPoints" THEN Range(ReadNames) ELSE WriteNames

\* the block types the requested points belong to
RequestedTypes == {TypeOf(n) : n \in {m \in RequestedNames : Known(m)}}

\* C22 (empty block types are skipped): a readPoints or writePoints call
\* sends no request whose function code is one of a block type none of the
\* requested points belongs to; a call given no name sends no request.
C22_EmptyTypesSkipped ==
    (Returned("readPoints") \/ Returned("writePoints"))
    => /\ \A j \in 1..Len(issued) :
             /\ BlockOfCode(issued[j].fcode) \in RequestedTypes
             /\ issued[j].fcode \in Range(FUNCTION_MAP[BlockOfCode(issued[j].fcode)])
       /\ RequestedNames = {} => issued = <<>>

\* a read of the tank's points of two of its three block types has sent
\* its two requests
C22_Witness ==
    /\ Returned("readPoints")
    /\ result.status = "ok"
    /\ slave_points = TankPoints
    /\ Cardinality(RequestedTypes) = 2
    /\ Len(issued) = 2

----------------------------------------------------------------------------
(* C23 *)

\* a request as it was built, before the transport answered or failed it
AsBuilt(tx) == [tx EXCEPT !.failed = FALSE]

\* C23 (no state across calls): no step changes the point directory, and
\* the requests a readPoints or writePoints call sends are the first ones of
\* the list that the directory and the arguments of the call determine, as
\* many as the transport let through, whatever calls were made before.
C23_NoStateAcrossCalls ==
    [][ /\ slave_points' = slave_points
        /\ (pc = "idle" /\ pc' = "returned"
              /\ request'.op \in {"readPoints", "writePoints"})
           => LET plan == IF request'.op = "readPoints"
                          THEN readPlan(request'.arg)
                          ELSE writePlan(request'.arg)
              IN /\ Len(issued') <= Len(plan)
                 /\ \A j \in 1..Len(issued') : AsBuilt(issued'[j]) = plan[j]
                 /\ result'.status \in {"ok", "KeyError"} => Len(issued') = Len(plan) ]_vars

\* a read has sent its requests after an earlier write had changed the device
C23_Witness ==
    /\ Returned("readPoints")
    /\ result.status = "ok"
    /\ issued # <<>>
    /\ device # InitialDevice

----------------------------------------------------------------------------
(* C24 *)

\* C24 (group partition): in a readPoints or writePoints call that
\* completes, every requested point the directory knows is a member of
\* exactly one of the requests sent, and of two requests of one block type
\* the one sent first has the lower start address and only members at lower
\* addresses than the members of the other.
C24_GroupPartition ==
    ((Returned("readPoints") \/ Returned("writePoints")) /\ result.status = "ok")
    => /\ \A n \in RequestedNames :
             Known(n) => Cardinality(RequestsWith(n)) = 1
       /\ \A j \in 1..Len(issued) :
             \A k \in 1..Len(issued[j].members) :
                /\ issued[j].members[k].name \in RequestedNames
                /\ \A l \in 1..Len(issued[j].members) :
                      issued[j].members[k].name = issued[j].members[l].name => k = l
       /\ \A i, j \in 1..Len(issued) :
             (i < j /\ issued[i].blocktype = issued[j].blocktype)
             => /\ issued[i].start < issued[j].start
                /\ SetMax(MemberAddrs(issued[i])) < SetMin(MemberAddrs(issued[j]))

\* a call for three points of more than one block type has completed
C24_Witness ==
    /\ Returned("readPoints") \/ Returned("writePoints")
    /\ result.status = "ok"
    /\ Cardinality({n \in RequestedNames : Known(n)}) = 3
    /\ Len(issued) >= 2
    /\ \E j \in 1..Len(issued) : Len(issued[j].members) = 2

----------------------------------------------------------------------------
(* C25 *)

ReadCodes == {FUNCTION_MAP[t][1] : t \in BlockTypes}
WriteCodes == {FUNCTION_MAP[t][c] : t \in BlockTypes, c \in {2, 3}} \ {None}

\* C25 (direction purity): every request a readPoints call sends carries a
\* read function code and the call leaves the device as it was; every
\* request a writePoints call sends carries a write-single or
\* write-multiple function code.
C25_DirectionPurity ==
    [][ (pc = "idle" /\ pc' = "returned")
        => /\ request'.op = "readPoints"
              => /\ \A j \in 1..Len(issued') : issued'[j].fcode \in ReadCodes
                 /\ device' = device
           /\ request'.op = "writePoints"
              => \A j \in 1..Len(issued') : issued'[j].fcode \in WriteCodes ]_vars

\* a read of points of all three block types of the tank has returned, the
\* device holding values an earlier write stored
C25_Witness ==
    /\ Returned("readPoints")
    /\ result.status = "ok"
    /\ Len(issued) = 3
    /\ device # InitialDevice

----------------------------------------------------------------------------
(* C26 *)

\* the chunk of the i-th os.read was written to some port
Forwarded(i) == \E q \in Range(masters) : TimesWritten(i, q) > 0

\* the entries of the log for the chunk of the i-th os.read
LogEntries(i) == {k \in 1..Len(logfile) : logfile[k].chunk = i}

\* C26 (PortLogger logging order): every chunk the thread has forwarded and
\* handled has exactly one entry in the log; an entry carries the name of
\* the port its chunk was read from and the chunk's bytes, and is there only
\* when the chunk has been written to every other port; the entries are in
\* the order the chunks were read.
C26_LoggingOrder ==
    /\ \A i \in 1..Len(reads) :
          (Forwarded(i) /\ Handled(i)) => Cardinality(LogEntries(i)) = 1
    /\ \A k \in 1..Len(logfile) :
          LET i == logfile[k].chunk IN
          /\ i \in 1..Len(reads)
          /\ logfile[k].slave_name = ttyname(masters_to_slaves[reads[i].port])
          /\ logfile[k].packet_string = packet_string(reads[i].data)
          /\ \A q \in Range(masters) \ {reads[i].port} : TimesWritten(i, q) = 1
    /\ \A k, l \in 1..Len(logfile) :
          k < l => logfile[k].chunk < logfile[l].chunk

----------------------------------------------------------------------------
(* C27 *)

\* C27 (PortLogger filtered chunk): a chunk that is exactly the two bytes
\* 0x81 0x04 is written to no port and has no entry in the log; every other
\* chunk the thread has handled, one that only contains those two bytes
\* among them, has been written to every other port and has its entry in
\* the log.
C27_FilteredChunk ==
    \A i \in 1..Len(reads) :
       IF reads[i].data = MysteryString
       THEN ~Forwarded(i) /\ LogEntries(i) = {}
       ELSE Handled(i)
            => /\ \A q \in Range(masters) \ {reads[i].port} : TimesWritten(i, q) = 1
               /\ Cardinality(LogEntries(i)) = 1

----------------------------------------------------------------------------
(* C28 *)

\* C28 (PortLogger stop race): the thread of run() never calls
\* self.log.write after stop() has closed the log (the call that raises and
\* ends the thread), and a chunk that is forwarded to the other ports is
\* logged as well, at the latest when the thread is done with it.
C28_StopRace ==
    /\ lpc # "crashed"
    /\ \A i \in 1..Len(reads) :
          (Forwarded(i) /\ Handled(i)) => LogEntries(i) # {}

----------------------------------------------------------------------------
(* C29 *)

\* the thread of run() has left the while loop, by the test of self.done or
\* by an exception
LoopLeft == lpc \in {"exited", "crashed"}

\* C29 (PortLogger termination): with the thread of run() scheduled fairly,
\* once stop() has set the flag the thread eventually leaves the loop; and
\* from then on nothing is written to any port.
C29_Termination ==
    /\ done ~> LoopLeft
    /\ [][LoopLeft => written' = written /\ LoopLeft']_vars

\* run() has returned after forwarding a chunk, and bytes a device wrote
\* since are left unread on its port
C29_Witness ==
    /\ lpc = "exited"
    /\ done
    /\ \E i \in 1..Len(reads) : Forwarded(i)
    /\ \E m \in Range(masters) : pending[m] # <<>>

====
